---- MODULE Spec2Model ----
(***************************************************************************)
(* Shared-expense ledger of the dashboard and expenses routes.             *)
(*                                                                         *)
(* One group document (admin, members, totalExpenses, cached balances) and *)
(* the Expense collection.  Every route handler that writes or reads the   *)
(* ledger is one action.  Money is held as an integer number of ticks,     *)
(* Cent ticks to the cent, so that the unrounded quotient amount /         *)
(* members.length of routes/expenses.js is exact for up to three members.  *)
(*                                                                         *)
(* The splitAmong array of the dashboard routes and the splitBetween array *)
(* of routes/expenses.js are one field, splitAmong; status 'paid' is       *)
(* settled = TRUE and status 'pending' is settled = FALSE.                 *)
(*                                                                         *)
(* Requests always carry a well-formed group id of the one group and a     *)
(* description; an optional body field that is absent is None (for arrays  *)
(* and maps) or Undefined (for ids and strings).                           *)
(***************************************************************************)
EXTENDS Integers, Sequences, FiniteSets, TLC

VARIABLES
    admin,          \* Group.admin
    members,        \* Group.members: sequence of [user, status, role]
    totalExpenses,  \* Group.totalExpenses
    groupBalances,  \* Group.balances of routes/expenses.js: user -> amount
    simplifiedDebts,\* Group.simplifiedDebts of routes/groups.js
    expenses,       \* Expense collection, in insertion order
    status,         \* HTTP status of the last response, 0 before any request
    res,            \* the statuses the handler of the last request has
                    \* passed to res.status(..).json(..), in order
    session         \* the calls the handler of the last request has made
                    \* on its mongoose session, in order

vars ==
    <<admin, members, totalExpenses, groupBalances, simplifiedDebts, expenses,
      status, res, session>>

ledger ==
    <<admin, members, totalExpenses, groupBalances, simplifiedDebts, expenses>>

-----------------------------------------------------------------------------
(* Bounds and input sets *)

MaxExpenses == 1

Cent == 2 * 3

Users == {"A", "B", "C"}

Undefined == "undefined"

TheGroup == "g1"

None == <<>>

Some(x) == <<x>>

Amounts == {10000 * Cent}

AmountInputs == Amounts \cup {0}

-----------------------------------------------------------------------------
(* Sequence helpers *)

Range(s) == {s[i] : i \in DOMAIN s}

RECURSIVE Sum(_)
Sum(s) == IF s = <<>> THEN 0 ELSE s[1] + Sum(Tail(s))

SumAmounts(s) == Sum([i \in DOMAIN s |-> s[i].amount])

Abs(x) == IF x < 0 THEN 0 - x ELSE x

-----------------------------------------------------------------------------
(* Request bodies *)

SplitAmongInputs ==
    {None, Some(<<>>), Some(<<"A", "B">>), Some(<<"B", "C">>)}

SplitAmountsInputs ==
    {None, Some([u \in Users |-> IF u = "A" THEN 4000 * Cent
                                 ELSE IF u = "B" THEN 6000 * Cent ELSE 0])}

PaidByInputs == {Undefined, "C"}

CategoryInputs == {Undefined}

AddExpenseBodies ==
    [amount : AmountInputs, splitAmong : SplitAmongInputs,
     splitAmounts : SplitAmountsInputs, splitType : {"equal", "unequal"},
     paidBy : PaidByInputs, category : CategoryInputs]

AddExpenseEqualBodies ==
    [amount : AmountInputs, splitAmong : SplitAmongInputs,
     category : CategoryInputs]

SplitDetailsInputs ==
    {<<>>, <<[userId |-> "B", amount |-> 6000 * Cent],
             [userId |-> "C", amount |-> 3000 * Cent]>>}

CreateExpenseBodies ==
    [amount : Amounts, groupId : {TheGroup, Undefined},
     splitType : {"equal", "custom"}, splitDetails : SplitDetailsInputs]

SettleAmountInputs == Amounts \cup {0, 0 - Cent}

AmountPaidInputs == {5000 * Cent, 10000 * Cent}

InviteInputs == {"B", "C"}

-----------------------------------------------------------------------------
(* Group access *)

isAdmin(userId) == admin = userId

isMember(userId) ==
    \E i \in DOMAIN members :
        members[i].user = userId /\ members[i].status = "active"

activeMembers == SelectSeq(members, LAMBDA m : m.status = "active")

allMembers ==
    <<admin>> \o [i \in 1..Len(activeMembers) |-> activeMembers[i].user]

membersToSplit(splitAmong) ==
    IF splitAmong # None /\ Len(splitAmong[1]) > 0
    THEN SelectSeq(allMembers, LAMBDA m : m \in Range(splitAmong[1]))
    ELSE allMembers

-----------------------------------------------------------------------------
(* Split calculation *)

\* Ties of (amount / n).toFixed(2) that fall below the half in binary
\* floating point, as <<amount in cents, n>>, for amounts up to 40 cents and
\* n up to 4; every other tie in that range lies above the half.
HalfRoundsDown ==
    {<<3, 2>>, <<9, 2>>, <<15, 2>>, <<21, 2>>, <<29, 2>>, <<31, 2>>,
     <<35, 2>>, <<37, 2>>, <<6, 4>>, <<18, 4>>, <<30, 4>>}

\* parseFloat((amount / n).toFixed(2)), in ticks
toFixed2(amount, n) ==
    LET c == amount \div (n * Cent)
        r == amount - c * n * Cent
    IN  IF 2 * r > n * Cent THEN (c + 1) * Cent
        ELSE IF 2 * r < n * Cent THEN c * Cent
        ELSE IF <<amount \div Cent, n>> \in HalfRoundsDown THEN c * Cent
        ELSE (c + 1) * Cent

Or(x, d) == IF x = Undefined THEN d ELSE x

\* splitDetails of POST /groups/:groupId/expenses
splitDetails(body, mts) ==
    IF body.splitType = "unequal" /\ body.splitAmounts # None
    THEN LET sa == body.splitAmong[1] IN
         [i \in 1..Len(sa) |->
            [user |-> sa[i], amount |-> body.splitAmounts[1][sa[i]],
             settled |-> sa[i] = body.paidBy]]
    ELSE LET splitAmount == toFixed2(body.amount, Len(mts)) IN
         [i \in 1..Len(mts) |->
            [user |-> mts[i], amount |-> splitAmount,
             settled |-> mts[i] = body.paidBy]]

\* the session of a handler that starts none
NoSession == <<>>

Reject(code) ==
    /\ status' = code
    /\ res' = <<code>>
    /\ session' = NoSession
    /\ UNCHANGED ledger

\* new Expense({...}) of POST /groups/:groupId/expenses
newExpense(userId, body) ==
    [group |-> TheGroup,
     amount |-> body.amount,
     paidBy |-> Or(body.paidBy, userId),
     splitAmong |-> splitDetails(body, membersToSplit(body.splitAmong)),
     category |-> Or(body.category, "Other")]

\* POST /groups/:groupId/expenses
AddExpense(userId, body) ==
    /\ Len(expenses) < MaxExpenses
    /\ IF body.amount <= 0 THEN Reject(400)
       ELSE IF ~isAdmin(userId) /\ ~isMember(userId) THEN Reject(403)
       ELSE IF Len(membersToSplit(body.splitAmong)) = 0 THEN Reject(400)
       ELSE IF body.splitType = "unequal" /\ body.splitAmounts # None
               /\ body.splitAmong = None
       THEN Reject(500)
       ELSE /\ expenses' = Append(expenses, newExpense(userId, body))
            /\ totalExpenses' = totalExpenses + body.amount
            /\ status' = 201
            /\ res' = <<201>>
            /\ session' = NoSession
            /\ UNCHANGED <<admin, members, groupBalances, simplifiedDebts>>

\* POST /groups/:groupId/expenses of the earlier dashboard router and
\* POST /expenses/group/:groupId: equal split only, the caller is the payer
AddExpenseEqual(userId, body) ==
    /\ Len(expenses) < MaxExpenses
    /\ IF body.amount <= 0 THEN Reject(400)
       ELSE IF ~isAdmin(userId) /\ ~isMember(userId) THEN Reject(403)
       ELSE IF Len(membersToSplit(body.splitAmong)) = 0 THEN Reject(400)
       ELSE LET mts == membersToSplit(body.splitAmong)
                splitAmount == toFixed2(body.amount, Len(mts))
            IN
            /\ expenses' = Append(expenses,
                   [group |-> TheGroup,
                    amount |-> body.amount,
                    paidBy |-> userId,
                    splitAmong |->
                        [i \in 1..Len(mts) |->
                            [user |-> mts[i], amount |-> splitAmount,
                             settled |-> mts[i] = userId]],
                    category |-> Or(body.category, "Other")])
            /\ totalExpenses' = totalExpenses + body.amount
            /\ status' = 201
            /\ res' = <<201>>
            /\ session' = NoSession
            /\ UNCHANGED <<admin, members, groupBalances, simplifiedDebts>>

-----------------------------------------------------------------------------
(* routes/expenses.js *)

\* Group.findOne / Group.exists with 'members.user': req.user._id
inMembers(userId) == \E i \in DOMAIN members : members[i].user = userId

\* splitBetween of POST /
splitBetween(userId, body) ==
    IF body.groupId # Undefined /\ body.splitType = "equal"
    THEN LET splitAmount == body.amount \div Len(members) IN
         [i \in 1..Len(members) |->
            [user |-> members[i].user, amount |-> splitAmount,
             settled |-> members[i].user = userId]]
    ELSE IF Len(body.splitDetails) > 0
    THEN [i \in 1..Len(body.splitDetails) |->
            [user |-> body.splitDetails[i].userId,
             amount |-> body.splitDetails[i].amount,
             settled |-> body.splitDetails[i].userId = userId]]
    ELSE <<[user |-> userId, amount |-> body.amount, settled |-> TRUE]>>

\* the balanceMap loop of POST /: the payer is credited the full amount at
\* each of the payer's own splits, every split is debited its share
RECURSIVE balanceMap(_, _, _, _)
balanceMap(map, splits, userId, amount) ==
    IF splits = <<>> THEN map
    ELSE LET u == splits[1].user
             credited == IF u = userId THEN map[u] + amount ELSE map[u]
         IN  balanceMap([map EXCEPT ![u] = credited - splits[1].amount],
                        Tail(splits), userId, amount)

\* the names that are bound in routes/expenses.js: the router and the
\* modules it requires
names ==
    {"express", "router", "authMiddleware", "User", "Group", "Expense",
     "mongoose"}

\* evaluating an identifier that is not bound throws a ReferenceError
throwsReferenceError(name) == name \notin names

\* POST / from the commit on: commitTransaction, endSession and the 201
\* response, then for a group expense the call of updateSimplifiedDebts.
\* The ReferenceError of that call is caught by the inner catch block,
\* whose abortTransaction throws on the committed transaction; the outer
\* catch block then passes 500 to res.status(..).json(..), which throws
\* because the 201 has been sent, and the handler ends on that error.
afterCommit(groupId) ==
    IF groupId # Undefined /\ throwsReferenceError("updateSimplifiedDebts")
    THEN [session |-> <<"startTransaction", "commitTransaction",
                        "endSession", "abortTransaction">>,
          res |-> <<201, 500>>]
    ELSE [session |-> <<"startTransaction", "commitTransaction",
                        "endSession">>,
          res |-> <<201>>]

\* new Expense({...}) of POST /
transacted(userId, body) ==
    [group |-> body.groupId,
     amount |-> body.amount,
     paidBy |-> userId,
     splitAmong |-> splitBetween(userId, body),
     category |-> "Other"]

\* POST / (the transaction as one step; the User documents' userOwes,
\* owedToUser and totalBalance are not part of the ledger and are left out)
CreateExpense(userId, body) ==
    /\ Len(expenses) < MaxExpenses
    /\ IF body.groupId # Undefined /\ ~inMembers(userId)
       THEN /\ status' = 404
            /\ res' = <<404>>
            /\ session' = <<"startTransaction">>
            /\ UNCHANGED ledger
       ELSE LET sb == splitBetween(userId, body) IN
            /\ expenses' = Append(expenses, transacted(userId, body))
            /\ IF body.groupId # Undefined
               THEN /\ totalExpenses' = totalExpenses + body.amount
                    /\ groupBalances' =
                           balanceMap(groupBalances, sb, userId, body.amount)
               ELSE UNCHANGED <<totalExpenses, groupBalances>>
            /\ status' = 201
            /\ res' = afterCommit(body.groupId).res
            /\ session' = afterCommit(body.groupId).session
            /\ UNCHANGED <<admin, members, simplifiedDebts>>

\* GET /?groupId=
GetUserExpenses(userId) ==
    IF ~inMembers(userId) THEN Reject(403) ELSE Reject(200)

-----------------------------------------------------------------------------
(* Settling *)
\* Each settle handler loads the expense, assigns split.settled = true on
\* the splits it selects and saves the document; the save writes only the
\* assigned paths, so a handler is one atomic step as far as the flags of
\* the other splits are concerned. No route removes an expense or a split.

ExpenseIds == 1..(MaxExpenses + 1)

\* settle with the flag flipped instead of set
settleToggled(splits, idxs) ==
    [i \in DOMAIN splits |->
        IF i \in idxs THEN [splits[i] EXCEPT !.settled = ~@] ELSE splits[i]]

\* split.settled = true for the splits at idxs
settle(splits, idxs) ==
    [i \in DOMAIN splits |->
        IF i \in idxs THEN [splits[i] EXCEPT !.settled = TRUE] ELSE splits[i]]

\* Array.prototype.findIndex and find: the first of the indices idxs at
\* which the test holds, 0 for none
findIndex(idxs) ==
    IF idxs = {} THEN 0 ELSE CHOOSE i \in idxs : \A j \in idxs : i <= j

\* splitsOf without the test on the user
splitsOfAny(splits, user) == DOMAIN splits

\* the indices of the splits of user
splitsOf(splits, user) == {i \in DOMAIN splits : splits[i].user = user}

\* the indices of the unsettled splits of user
unsettledSplitsOf(splits, user) ==
    {i \in DOMAIN splits : splits[i].user = user /\ ~splits[i].settled}

\* POST /groups/:groupId/expenses/:expenseId/settle
\* POST /expenses/group/:groupId/settle/:expenseId
SettleExpense(userId, expenseId) ==
    IF expenseId \notin DOMAIN expenses THEN Reject(404)
    ELSE LET expense == expenses[expenseId] IN
         IF findIndex(splitsOf(expense.splitAmong, userId)) = 0
         THEN Reject(403)
         ELSE /\ expenses' = [expenses EXCEPT ![expenseId].splitAmong =
                    settle(@, splitsOf(@, userId))]
              /\ status' = 200
              /\ res' = <<200>>
              /\ session' = NoSession
              /\ UNCHANGED <<admin, members, totalExpenses, groupBalances,
                          simplifiedDebts>>

\* the split as the save persists it: the paths the split schema declares
\* and nothing else
savedWhole(split) == split

saved(split) ==
    [user |-> split.user, amount |-> split.amount, settled |-> split.settled]

\* POST /groups/:groupId/expenses/:expenseId/update-payment
\* POST /expenses/group/:groupId/payment/:expenseId
\* (splitEntry.settled = true; splitEntry.amountPaid = amountPaid; save)
UpdatePayment(currentUserId, userId, expenseId, amountPaid) ==
    IF expenseId \notin DOMAIN expenses THEN Reject(404)
    ELSE LET expense == expenses[expenseId]
             splitEntry == findIndex(splitsOf(expense.splitAmong, userId))
         IN
         IF expense.paidBy # currentUserId THEN Reject(403)
         ELSE IF splitEntry = 0 THEN Reject(400)
         ELSE /\ expenses' =
                    [expenses EXCEPT ![expenseId].splitAmong[splitEntry] =
                        saved([user |-> @.user, amount |-> @.amount,
                               settled |-> TRUE, amountPaid |-> amountPaid])]
              /\ status' = 200
              /\ res' = <<200>>
              /\ session' = NoSession
              /\ UNCHANGED <<admin, members, totalExpenses, groupBalances,
                          simplifiedDebts>>

\* one branch of the $or of the settle-balance query: the three conditions
\* are matched against the array as a whole, not against one element
matches(expense, payer, other) ==
    /\ expense.group = TheGroup
    /\ expense.paidBy = payer
    /\ \E i \in DOMAIN expense.splitAmong : expense.splitAmong[i].user = other
    /\ \E i \in DOMAIN expense.splitAmong : ~expense.splitAmong[i].settled

unsettledBetween(userId, withUserId) ==
    {e \in DOMAIN expenses :
        \/ matches(expenses[e], withUserId, userId)
        \/ matches(expenses[e], userId, withUserId)}

\* the split the marking loop settles in one expense, 0 for none
splitIndex(expense, userId, withUserId) ==
    IF expense.paidBy = withUserId
    THEN findIndex(unsettledSplitsOf(expense.splitAmong, userId))
    ELSE IF expense.paidBy = userId
    THEN findIndex(unsettledSplitsOf(expense.splitAmong, withUserId))
    ELSE 0

settlementExpense(userId, withUserId, amount) ==
    [group |-> TheGroup,
     amount |-> amount,
     paidBy |-> userId,
     splitAmong |-> <<[user |-> userId, amount |-> 0, settled |-> TRUE],
                      [user |-> withUserId, amount |-> amount,
                       settled |-> TRUE]>>,
     category |-> "Settlement"]

\* the caller is one of the two users of the settlement
involvedAnyone(currentUserId, userId, withUserId) == TRUE

involved(currentUserId, userId, withUserId) ==
    ~(currentUserId # userId /\ currentUserId # withUserId)

\* POST /groups/:groupId/settle-balance
SettleBalance(currentUserId, userId, withUserId, amount) ==
    IF ~involved(currentUserId, userId, withUserId) THEN Reject(403)
    ELSE IF unsettledBetween(userId, withUserId) = {}
    THEN IF amount < 0 THEN Reject(500)
         ELSE /\ Len(expenses) < MaxExpenses
              /\ expenses' = Append(expenses,
                     settlementExpense(userId, withUserId, amount))
              /\ status' = 200
              /\ res' = <<200>>
              /\ session' = NoSession
              /\ UNCHANGED <<admin, members, totalExpenses, groupBalances,
                          simplifiedDebts>>
    ELSE /\ expenses' =
                [e \in DOMAIN expenses |->
                    IF e \in unsettledBetween(userId, withUserId)
                    THEN [expenses[e] EXCEPT !.splitAmong =
                            settle(@, {splitIndex(expenses[e], userId,
                                                  withUserId)})]
                    ELSE expenses[e]]
         /\ status' = 200
         /\ res' = <<200>>
         /\ session' = NoSession
         /\ UNCHANGED <<admin, members, totalExpenses, groupBalances,
                          simplifiedDebts>>

-----------------------------------------------------------------------------
(* Reading *)

\* GET /groups/:groupId/expenses, GET /expenses/group/:groupId
GetExpenses(userId) ==
    IF ~isAdmin(userId) /\ ~isMember(userId) THEN Reject(403) ELSE Reject(200)

groupExpenses == SelectSeq(expenses, LAMBDA e : e.group = TheGroup)

\* the keys of the balances object: the admin and the active members
balanceUsers == Range(allMembers)

totalUnsettledAmount(expense) ==
    Sum([i \in DOMAIN expense.splitAmong |->
            IF ~expense.splitAmong[i].settled
            THEN expense.splitAmong[i].amount ELSE 0])

\* what one expense adds to u's owed in GET /groups/:groupId/balances
owedIn(expense, u) ==
    Sum([i \in DOMAIN expense.splitAmong |->
            IF ~expense.splitAmong[i].settled
               /\ expense.splitAmong[i].user = u
            THEN expense.splitAmong[i].amount ELSE 0])

\* what one expense adds to u's paid in GET /groups/:groupId/balances
paidIn(expense, u) ==
    IF expense.paidBy = u /\ totalUnsettledAmount(expense) > 0
    THEN totalUnsettledAmount(expense) ELSE 0

\* the aggregation loop of GET /groups/:groupId/balances over the expenses
\* exps: settlement records are skipped, only unsettled splits are counted
balancesOf(exps) ==
    [u \in balanceUsers |->
        LET counted == SelectSeq(exps, LAMBDA e : e.category # "Settlement")
            paid == Sum([i \in DOMAIN counted |-> paidIn(counted[i], u)])
            owed == Sum([i \in DOMAIN counted |-> owedIn(counted[i], u)])
        IN  [paid |-> paid, owed |-> owed, net |-> paid - owed,
             pendingPayments |-> owed]]

\* the aggregation loop of GET /balances/group/:groupId and of the earlier
\* GET /groups/:groupId/balances over the expenses exps: every expense and
\* every split is counted, pendingPayments alone looks at settled
balancesAllOf(exps) ==
    [u \in balanceUsers |->
        LET paid == Sum([i \in DOMAIN exps |->
                        IF exps[i].paidBy = u THEN exps[i].amount ELSE 0])
            owed == Sum([i \in DOMAIN exps |->
                        Sum([j \in DOMAIN exps[i].splitAmong |->
                            IF exps[i].splitAmong[j].user = u
                            THEN exps[i].splitAmong[j].amount ELSE 0])])
            pending == Sum([i \in DOMAIN exps |-> owedIn(exps[i], u)])
        IN  [paid |-> paid, owed |-> owed, net |-> paid - owed,
             pendingPayments |-> pending]]

\* the response of GET /groups/:groupId/balances, before its final filter
balances == balancesOf(groupExpenses)

\* the response of GET /balances/group/:groupId
balancesAll == balancesAllOf(groupExpenses)

\* Object.keys(balances): the admin and the active members, each once, in
\* the order in which the keys are added
RECURSIVE keys(_)
keys(s) ==
    IF s = <<>> THEN <<>>
    ELSE LET rest == keys(SubSeq(s, 1, Len(s) - 1)) IN
         IF s[Len(s)] \in Range(rest) THEN rest ELSE Append(rest, s[Len(s)])

userIds == keys(allMembers)

\* user1PaidForUser2: over the expenses that user1 has paid and that are
\* no settlement records, the amount of the first split of user2 when that
\* split is unsettled
paidFor(user1Id, user2Id) ==
    LET counted == SelectSeq(groupExpenses,
                             LAMBDA e : e.category # "Settlement")
    IN  Sum([e \in DOMAIN counted |->
            LET split == findIndex(splitsOf(counted[e].splitAmong, user2Id))
            IN  IF counted[e].paidBy = user1Id /\ split # 0
                   /\ ~counted[e].splitAmong[split].settled
                THEN counted[e].splitAmong[split].amount ELSE 0])

\* netBalance of the pair of the users at i and j of userIds, i < j
netBalance(i, j) ==
    paidFor(userIds[i], userIds[j]) - paidFor(userIds[j], userIds[i])

\* the pair is pushed to the detailed balances of both its users
listed(i, j) == Abs(netBalance(i, j)) > Cent

\* detailedBalances of the user at k of userIds, in the order of the pushes
detailedBalances(k) ==
    LET with == SelectSeq([j \in DOMAIN userIds |-> j],
                          LAMBDA j : \/ j < k /\ listed(j, k)
                                     \/ k < j /\ listed(k, j))
    IN  [n \in DOMAIN with |->
            [withUser |-> userIds[with[n]],
             amount |-> IF k < with[n] THEN netBalance(k, with[n])
                        ELSE 0 - netBalance(with[n], k)]]

\* balancesArray, the body of the response: the balances of the users
\* whose net is 0.01 or more either way
balancesArray ==
    LET kept == SelectSeq([k \in DOMAIN userIds |-> k],
                          LAMBDA k : Abs(balances[userIds[k]].net) >= Cent)
    IN  [n \in DOMAIN kept |->
            [id |-> userIds[kept[n]],
             paid |-> balances[userIds[kept[n]]].paid,
             owed |-> balances[userIds[kept[n]]].owed,
             net |-> balances[userIds[kept[n]]].net,
             pendingPayments |-> balances[userIds[kept[n]]].pendingPayments,
             detailedBalances |-> detailedBalances(kept[n])]]

\* GET /groups/:groupId/balances
GetBalances(userId) ==
    IF ~isAdmin(userId) /\ ~isMember(userId) THEN Reject(403) ELSE Reject(200)

\* GET /balances/group/:groupId
GetGroupBalances(userId) ==
    IF ~isAdmin(userId) /\ ~isMember(userId) THEN Reject(403) ELSE Reject(200)

-----------------------------------------------------------------------------
(* Membership *)

\* POST /groups/:groupId/invite
Invite(userId, invited) ==
    IF admin # userId THEN Reject(403)
    ELSE IF inMembers(invited) THEN Reject(400)
    ELSE /\ members' = Append(members, [user |-> invited, status |-> "pending",
                                        role |-> "member"])
         /\ status' = 200
         /\ res' = <<200>>
         /\ session' = NoSession
         /\ UNCHANGED <<admin, totalExpenses, groupBalances,
                      simplifiedDebts, expenses>>

-----------------------------------------------------------------------------

\* The groups the routes find in the database: invitations add pending
\* members, and the member status 'active' of the Group schema is written
\* by no route under src, so the groups with active members are drawn here.
InitMembers ==
    {<<[user |-> "B", status |-> "active", role |-> "member"]>>,
     <<[user |-> "B", status |-> "active", role |-> "member"],
       [user |-> "C", status |-> "pending", role |-> "member"]>>,
     <<[user |-> "B", status |-> "active", role |-> "member"],
       [user |-> "C", status |-> "active", role |-> "member"]>>}

Init ==
    /\ admin = "A"
    /\ members \in InitMembers
    /\ totalExpenses = 0
    /\ groupBalances = [u \in Users |-> 0]
    /\ simplifiedDebts = <<>>
    /\ expenses = <<>>
    /\ status = 0
    /\ res = <<>>
    /\ session = NoSession

Next ==
    \/ \E userId \in Users, body \in AddExpenseBodies :
            AddExpense(userId, body)
    \/ \E userId \in Users, body \in AddExpenseEqualBodies :
            AddExpenseEqual(userId, body)
    \/ \E userId \in Users, body \in CreateExpenseBodies :
            CreateExpense(userId, body)
    \/ \E userId \in Users, expenseId \in ExpenseIds :
            SettleExpense(userId, expenseId)
    \/ \E currentUserId \in Users, userId \in Users, expenseId \in ExpenseIds,
          amountPaid \in AmountPaidInputs :
            UpdatePayment(currentUserId, userId, expenseId, amountPaid)
    \/ \E currentUserId \in Users, userId \in Users, withUserId \in Users,
          amount \in SettleAmountInputs :
            SettleBalance(currentUserId, userId, withUserId, amount)
    \/ \E userId \in Users : GetExpenses(userId)
    \/ \E userId \in Users : GetUserExpenses(userId)
    \/ \E userId \in Users : GetBalances(userId)
    \/ \E userId \in Users : GetGroupBalances(userId)
    \/ \E userId \in Users, invited \in InviteInputs : Invite(userId, invited)

Spec == Init /\ [][Next]_vars

-----------------------------------------------------------------------------
(* The group of admin A with active members B and C, and expenses of 90.00 *)
(* split equally among the three                                           *)

ScenarioBodies ==
    [amount : {9000 * Cent},
     splitAmong : {None, Some(<<"A", "B", "C">>)},
     splitAmounts : {None}, splitType : {"equal"},
     paidBy : {Undefined, "A"}, category : {Undefined}]

InitScenario ==
    /\ admin = "A"
    /\ members = <<[user |-> "B", status |-> "active", role |-> "member"],
                   [user |-> "C", status |-> "active", role |-> "member"]>>
    /\ totalExpenses = 0
    /\ groupBalances = [u \in Users |-> 0]
    /\ simplifiedDebts = <<>>
    /\ expenses = <<>>
    /\ status = 0
    /\ res = <<>>
    /\ session = NoSession

NextScenario ==
    \/ \E userId \in Users, body \in ScenarioBodies :
            AddExpense(userId, body)
    \/ \E userId \in Users, expenseId \in ExpenseIds :
            SettleExpense(userId, expenseId)
    \/ \E currentUserId \in Users, userId \in Users, expenseId \in ExpenseIds,
          amountPaid \in AmountPaidInputs :
            UpdatePayment(currentUserId, userId, expenseId, amountPaid)
    \/ \E currentUserId \in Users, userId \in Users, withUserId \in Users :
            SettleBalance(currentUserId, userId, withUserId, 3000 * Cent)
    \/ \E userId \in Users : GetBalances(userId)

SpecScenario == InitScenario /\ [][NextScenario]_vars

-----------------------------------------------------------------------------
(* Settling on a ledger of two expenses of 90.00, each split equally among *)
(* A, B and C and paid by A or by B                                        *)

\* the expense POST /expenses/group/:groupId saves for the caller userId
equalExpense(userId, amount) ==
    [group |-> TheGroup,
     amount |-> amount,
     paidBy |-> userId,
     splitAmong |->
        [i \in 1..Len(allMembers) |->
            [user |-> allMembers[i],
             amount |-> toFixed2(amount, Len(allMembers)),
             settled |-> allMembers[i] = userId]],
     category |-> "Other"]

SettlingAmounts == {3000 * Cent, 9000 * Cent}

InitSettling ==
    /\ admin = "A"
    /\ members = <<[user |-> "B", status |-> "active", role |-> "member"],
                   [user |-> "C", status |-> "active", role |-> "member"]>>
    /\ totalExpenses = 2 * 9000 * Cent
    /\ groupBalances = [u \in Users |-> 0]
    /\ simplifiedDebts = <<>>
    /\ \E first \in {"A", "B"}, second \in {"A", "B"} :
            expenses = <<equalExpense(first, 9000 * Cent),
                         equalExpense(second, 9000 * Cent)>>
    /\ status = 0
    /\ res = <<>>
    /\ session = NoSession

NextSettling ==
    \/ \E userId \in Users, expenseId \in ExpenseIds :
            SettleExpense(userId, expenseId)
    \/ \E currentUserId \in Users, userId \in Users, expenseId \in ExpenseIds,
          amountPaid \in AmountPaidInputs :
            UpdatePayment(currentUserId, userId, expenseId, amountPaid)
    \/ \E currentUserId \in Users, userId \in Users, withUserId \in Users,
          amount \in SettlingAmounts :
            SettleBalance(currentUserId, userId, withUserId, amount)
    \/ \E userId \in Users : GetBalances(userId)

SpecSettling == InitSettling /\ [][NextSettling]_vars

-----------------------------------------------------------------------------
(* Settling expenses whose participants are listed as the request gives    *)
(* them: the unequal branch maps splitAmong entry by entry, so a user that *)
(* is listed twice has two splits                                          *)

FrameBodies ==
    [amount : Amounts,
     splitAmong : {Some(<<"A", "B">>), Some(<<"B", "A", "B">>)},
     splitAmounts : SplitAmountsInputs \ {None},
     splitType : {"unequal"},
     paidBy : {Undefined, "A"}, category : CategoryInputs]

NextFrame ==
    \/ \E userId \in Users, body \in FrameBodies :
            AddExpense(userId, body)
    \/ \E userId \in Users, expenseId \in ExpenseIds :
            SettleExpense(userId, expenseId)
    \/ \E currentUserId \in Users, userId \in Users, expenseId \in ExpenseIds,
          amountPaid \in AmountPaidInputs :
            UpdatePayment(currentUserId, userId, expenseId, amountPaid)

SpecFrame == Init /\ [][NextFrame]_vars

-----------------------------------------------------------------------------
(* Expenses of a few cents, split equally *)

CentBodies ==
    [amount : {2 * Cent, 4 * Cent},
     splitAmong : {None, Some(<<"A", "B">>)},
     splitAmounts : {None}, splitType : {"equal"},
     paidBy : {Undefined, "A"}, category : CategoryInputs]

NextCents ==
    \/ \E userId \in Users, body \in CentBodies :
            AddExpense(userId, body)
    \/ \E userId \in Users, expenseId \in ExpenseIds :
            SettleExpense(userId, expenseId)
    \/ \E userId \in Users : GetBalances(userId)

SpecCents == Init /\ [][NextCents]_vars

-----------------------------------------------------------------------------
(* Settling on a ledger that holds an expense of this group and an expense *)
(* of another group of the same three users                                *)

OtherGroup == "g2"

InitAuthority ==
    /\ admin = "A"
    /\ members = <<[user |-> "B", status |-> "active", role |-> "member"],
                   [user |-> "C", status |-> "active", role |-> "member"]>>
    /\ totalExpenses = 9000 * Cent
    /\ groupBalances = [u \in Users |-> 0]
    /\ simplifiedDebts = <<>>
    /\ \E first \in {"A", "B"}, second \in {"A", "B"} :
            expenses = <<equalExpense(first, 9000 * Cent),
                         [equalExpense(second, 9000 * Cent)
                            EXCEPT !.group = OtherGroup]>>
    /\ status = 0
    /\ res = <<>>
    /\ session = NoSession

SpecAuthority == InitAuthority /\ [][NextSettling]_vars

-----------------------------------------------------------------------------
(* Expense creation with a write that fails *)

PersistenceSteps == {"expense.save", "Group.findByIdAndUpdate"}

\* POST /groups/:groupId/expenses when the write `failing` throws: the
\* writes before it have been made, the catch block answers 500
AddExpenseFails(userId, body, failing) ==
    /\ Len(expenses) < MaxExpenses
    /\ body.amount > 0
    /\ isAdmin(userId) \/ isMember(userId)
    /\ Len(membersToSplit(body.splitAmong)) > 0
    /\ ~(body.splitType = "unequal" /\ body.splitAmounts # None
          /\ body.splitAmong = None)
    /\ IF failing = "expense.save" THEN Reject(500)
       ELSE /\ expenses' = Append(expenses, newExpense(userId, body))
            /\ status' = 500
            /\ res' = <<500>>
            /\ session' = NoSession
            /\ UNCHANGED <<admin, members, totalExpenses, groupBalances,
                          simplifiedDebts>>

\* POST / of routes/expenses.js when a write of the transaction throws:
\* session.abortTransaction() undoes the writes made so far, the outer
\* catch block answers 500
CreateExpenseFails(userId, body) ==
    /\ Len(expenses) < MaxExpenses
    /\ body.groupId = Undefined \/ inMembers(userId)
    /\ status' = 500
    /\ res' = <<500>>
    /\ session' = <<"startTransaction", "abortTransaction", "endSession">>
    /\ UNCHANGED ledger

FaultBodies ==
    [amount : Amounts, splitAmong : {None, Some(<<"A", "B">>)},
     splitAmounts : {None}, splitType : {"equal"},
     paidBy : PaidByInputs, category : CategoryInputs]

NextFaults ==
    \/ \E userId \in Users, body \in FaultBodies :
            AddExpense(userId, body)
    \/ \E userId \in Users, body \in FaultBodies,
          failing \in PersistenceSteps :
            AddExpenseFails(userId, body, failing)
    \/ \E userId \in Users, body \in CreateExpenseBodies :
            CreateExpense(userId, body)
    \/ \E userId \in Users, body \in CreateExpenseBodies :
            CreateExpenseFails(userId, body)
    \/ \E currentUserId \in Users, userId \in Users, withUserId \in Users,
          amount \in Amounts :
            SettleBalance(currentUserId, userId, withUserId, amount)
    \/ \E userId \in Users, expenseId \in ExpenseIds :
            SettleExpense(userId, expenseId)

SpecFaults == Init /\ [][NextFaults]_vars

-----------------------------------------------------------------------------
(* routes/groups.js: leaving the group and the simplified debts            *)

\* POST /:groupId/leave: $pull of the caller's entries of members
Leave(userId) ==
    /\ members' = SelectSeq(members, LAMBDA m : m.user # userId)
    /\ status' = 200
    /\ res' = <<200>>
    /\ session' = NoSession
    /\ UNCHANGED <<admin, totalExpenses, groupBalances, simplifiedDebts,
                   expenses>>

\* the keys of debtMatrix, in the order of group.members
memberIds == [i \in DOMAIN members |-> members[i].user]

\* creditors.reduce((sum, b) => sum + b.amount, 0)
RECURSIVE totalCreditOf(_)
totalCreditOf(S) ==
    IF S = {} THEN 0
    ELSE LET u == CHOOSE x \in S : TRUE
         IN  (IF groupBalances[u] > 0 THEN groupBalances[u] ELSE 0)
             + totalCreditOf(S \ {u})

totalCredit == totalCreditOf(DOMAIN groupBalances)

RECURSIVE GCD(_, _)
GCD(a, b) == IF b = 0 THEN a ELSE GCD(b, a % b)

\* the largest amount of which every balance is a multiple
RECURSIVE unitOf(_)
unitOf(S) ==
    IF S = {} THEN 0
    ELSE LET u == CHOOSE x \in S : TRUE
         IN  GCD(Abs(groupBalances[u]), unitOf(S \ {u}))

unit ==
    IF unitOf(DOMAIN groupBalances) = 0 THEN 1
    ELSE unitOf(DOMAIN groupBalances)

\* the amounts of the matrix are fractions of this denominator:
\* totalCredit, in units
den == IF totalCredit = 0 THEN 1 ELSE totalCredit \div unit

\* debtMatrix[debtor][creditor] after the matrix is filled, as the
\* numerator of a fraction over den:
\* Math.abs(amount) * (creditor.amount / totalCredit)
debtMatrix(debtor, creditor) ==
    IF groupBalances[debtor] < 0 /\ groupBalances[creditor] > 0
    THEN (0 - groupBalances[debtor]) * (groupBalances[creditor] \div unit)
    ELSE 0

\* debtMatrix[userId] is undefined for a debtor that is not in members:
\* the += throws and the catch block returns false
simplifyThrows ==
    \E debtor \in DOMAIN groupBalances :
        /\ groupBalances[debtor] < 0
        /\ totalCredit > 0
        /\ debtor \notin Range(memberIds)

\* emitted, without the pairs that are in the stored instructions already
emittedOnce ==
    {p \in (DOMAIN members) \X (DOMAIN members) :
        /\ p[1] # p[2]
        /\ debtMatrix(memberIds[p[1]], memberIds[p[2]]) > Cent * den
        /\ \A i \in DOMAIN simplifiedDebts :
                \/ simplifiedDebts[i].from # memberIds[p[1]]
                \/ simplifiedDebts[i].to # memberIds[p[2]]}

\* the entries of the matrix the greedy loop emits, as pairs of indices of
\* members: those above 0.01 (an entry for a creditor outside members is
\* NaN and never compares greater)
emitted ==
    {p \in (DOMAIN members) \X (DOMAIN members) :
        /\ p[1] # p[2]
        /\ debtMatrix(memberIds[p[1]], memberIds[p[2]]) > Cent * den}

\* the entry the scan for the largest debt ends on: the first, in the
\* order of the two for-in loops, among the largest
largest(S) ==
    CHOOSE p \in S : \A q \in S :
        LET dp == debtMatrix(memberIds[p[1]], memberIds[p[2]])
            dq == debtMatrix(memberIds[q[1]], memberIds[q[2]])
        IN  \/ dp > dq
            \/ dp = dq /\ (p[1] < q[1] \/ (p[1] = q[1] /\ p[2] <= q[2]))

\* the while loop: push the largest debt p and zero it, until none is left
RECURSIVE greedy(_)
greedy(S) ==
    IF S = {} THEN <<>>
    ELSE CHOOSE pushed \in
            {<<[from |-> memberIds[p[1]], to |-> memberIds[p[2]],
                amount |-> [num |-> debtMatrix(memberIds[p[1]],
                                               memberIds[p[2]]),
                            den |-> den]]>>
             \o greedy(S \ {p}) : p \in {largest(S)}} : TRUE

\* updateSimplifiedDebts(groupId)
UpdateSimplifiedDebts ==
    /\ UNCHANGED <<admin, members, totalExpenses, groupBalances, expenses,
                   status, res, session>>
    /\ simplifiedDebts' = IF simplifyThrows THEN simplifiedDebts
                          ELSE greedy(emitted)

NextSimplify ==
    \/ \E userId \in Users, body \in CreateExpenseBodies :
            CreateExpense(userId, body)
    \/ \E userId \in Users, invited \in InviteInputs : Invite(userId, invited)
    \/ \E userId \in Users : Leave(userId)
    \/ \E userId \in Users : GetBalances(userId)
    \/ UpdateSimplifiedDebts

SpecSimplify == Init /\ [][NextSimplify]_vars

-----------------------------------------------------------------------------
(* Groups as the two creation routes make them *)

MemberListInputs == {<<>>, <<"B">>, <<"C">>, <<"B", "C">>, <<"A", "B">>}

\* members of POST / of routes/groups.js: the creator with role admin, then
\* the given users other than the creator (these entries carry no status)
createdMembers(userId, given) ==
    <<[user |-> userId, status |-> Undefined, role |-> "admin"]>>
    \o [i \in 1..Len(SelectSeq(given, LAMBDA m : m # userId)) |->
          [user |-> SelectSeq(given, LAMBDA m : m # userId)[i],
           status |-> Undefined, role |-> "member"]]

\* members of POST /groups/create of the dashboard router: the given users
\* other than the creator, pending
invitedMembers(userId, given) ==
    [i \in 1..Len(SelectSeq(given, LAMBDA m : m # userId)) |->
        [user |-> SelectSeq(given, LAMBDA m : m # userId)[i],
         status |-> "pending", role |-> "member"]]

\* POST /:groupId/members of routes/groups.js: the query asks for the
\* caller among members and for role admin among members
AddMembers(userId, given) ==
    IF ~(inMembers(userId)
         /\ \E i \in DOMAIN members : members[i].role = "admin")
    THEN Reject(403)
    ELSE LET new == SelectSeq(given, LAMBDA m : ~inMembers(m)) IN
         /\ members' = members \o
                [i \in 1..Len(new) |->
                    [user |-> new[i], status |-> Undefined,
                     role |-> "member"]]
         /\ status' = 200
         /\ res' = <<200>>
         /\ session' = NoSession
         /\ UNCHANGED <<admin, totalExpenses, groupBalances, simplifiedDebts,
                        expenses>>

\* the group right after POST / of routes/groups.js (no admin path, the
\* creator is a member with role admin) or after POST /groups/create of the
\* dashboard router (the creator is Group.admin)
InitGroups ==
    /\ \E userId \in Users, given \in MemberListInputs :
            \/ admin = Undefined /\ members = createdMembers(userId, given)
            \/ admin = userId /\ members = invitedMembers(userId, given)
    /\ totalExpenses = 0
    /\ groupBalances = [u \in Users |-> 0]
    /\ simplifiedDebts = <<>>
    /\ expenses = <<>>
    /\ status = 201
    /\ res = <<201>>
    /\ session = NoSession

NextGroups ==
    \/ \E userId \in Users, invited \in Users : Invite(userId, invited)
    \/ \E userId \in Users, given \in MemberListInputs :
            AddMembers(userId, given)
    \/ \E userId \in Users : Leave(userId)

SpecGroups == InitGroups /\ [][NextGroups]_vars

-----------------------------------------------------------------------------
(* Groups as POST / of routes/groups.js makes them, with their expenses    *)
(* and their simplified debts                                              *)

InitCreated ==
    /\ admin = Undefined
    /\ \E userId \in Users, given \in MemberListInputs :
            members = createdMembers(userId, given)
    /\ totalExpenses = 0
    /\ groupBalances = [u \in Users |-> 0]
    /\ simplifiedDebts = <<>>
    /\ expenses = <<>>
    /\ status = 201
    /\ res = <<201>>
    /\ session = NoSession

NextCreated ==
    \/ \E userId \in Users, body \in CreateExpenseBodies :
            CreateExpense(userId, body)
    \/ \E userId \in Users, given \in MemberListInputs :
            AddMembers(userId, given)
    \/ UpdateSimplifiedDebts

SpecCreated == InitCreated /\ [][NextCreated]_vars

-----------------------------------------------------------------------------
(* Expenses of 90.00 in the groups POST / of routes/groups.js makes, split *)
(* equally or as the request says, B 60.00 and C 30.00                     *)

CustomBodies ==
    [amount : {9000 * Cent}, groupId : {TheGroup},
     splitType : {"equal", "custom"},
     splitDetails : {<<[userId |-> "B", amount |-> 6000 * Cent],
                       [userId |-> "C", amount |-> 3000 * Cent]>>}]

NextCustom ==
    \/ \E userId \in Users, body \in CustomBodies :
            CreateExpense(userId, body)
    \/ \E userId \in Users, given \in MemberListInputs :
            AddMembers(userId, given)
    \/ \E userId \in Users : Leave(userId)

SpecCustom == InitCreated /\ [][NextCustom]_vars

-----------------------------------------------------------------------------
(* A group of five that POST / of routes/groups.js has made, after two     *)
(* expenses of 100.00 split equally                                        *)

FiveUsers == {"A", "B", "C", "D", "E"}

equalBody ==
    [amount |-> 10000 * Cent, groupId |-> TheGroup, splitType |-> "equal",
     splitDetails |-> <<>>]

InitFive ==
    /\ admin = Undefined
    /\ members = createdMembers("A", <<"B", "C", "D", "E">>)
    /\ totalExpenses = 2 * equalBody.amount
    /\ simplifiedDebts = <<>>
    /\ \E first \in {"A", "B"}, second \in {"A", "B"} :
          /\ expenses = <<transacted(first, equalBody),
                          transacted(second, equalBody)>>
          /\ groupBalances =
                balanceMap(balanceMap([u \in FiveUsers |-> 0],
                                      splitBetween(first, equalBody), first,
                                      equalBody.amount),
                           splitBetween(second, equalBody), second,
                           equalBody.amount)
    /\ status = 201
    /\ res = afterCommit(TheGroup).res
    /\ session = afterCommit(TheGroup).session

NextFive ==
    \/ \E userId \in FiveUsers : Leave(userId)
    \/ \E userId \in FiveUsers : GetUserExpenses(userId)
    \/ UpdateSimplifiedDebts

SpecFive == InitFive /\ [][NextFive]_vars

-----------------------------------------------------------------------------
(* Properties *)

\* the step has inserted an expense
inserted == Len(expenses') = Len(expenses) + 1

\* the expense the step has inserted
created == expenses'[Len(expenses')]

\* the request takes the unequal branch of POST /groups/:groupId/expenses
unequalBranch(body) == body.splitType = "unequal" /\ body.splitAmounts # None

\* the request passes the checks that come before the split calculation
accepted(userId, body) ==
    /\ body.amount > 0
    /\ isAdmin(userId) \/ isMember(userId)
    /\ Len(membersToSplit(body.splitAmong)) > 0

\* C1: in every reachable ledger, the split amounts of every persisted
\* expense sum to the amount of the expense, to within one cent in total.
C1_SplitsSumToAmount ==
    \A e \in DOMAIN expenses :
        Abs(SumAmounts(expenses[e].splitAmong) - expenses[e].amount) <= Cent

\* C2: every expense inserted under the equal policy has splits that are
\* whole cents and that sum exactly to the amount of the expense.
C2_EqualSplitSumsExactly ==
    [][/\ \A userId \in Users, body \in AddExpenseBodies :
            (AddExpense(userId, body) /\ ~unequalBranch(body) /\ inserted)
            => /\ \A i \in DOMAIN created.splitAmong :
                     created.splitAmong[i].amount % Cent = 0
               /\ SumAmounts(created.splitAmong) = body.amount
       /\ \A userId \in Users, body \in AddExpenseEqualBodies :
            (AddExpenseEqual(userId, body) /\ inserted)
            => /\ \A i \in DOMAIN created.splitAmong :
                     created.splitAmong[i].amount % Cent = 0
               /\ SumAmounts(created.splitAmong) = body.amount]_vars

\* the explicit amounts of an unequal request, over its participants
explicitSum(body) ==
    Sum([i \in DOMAIN body.splitAmong[1] |->
            body.splitAmounts[1][body.splitAmong[1][i]]])

\* the explicit amounts miss the amount by more than one cent per entry
mismatch(body) ==
    Abs(explicitSum(body) - body.amount) > Cent * Len(body.splitAmong[1])

\* C3: an otherwise acceptable unequal request whose explicit amounts do not
\* sum to the amount is answered 400, inserts no expense and leaves
\* totalExpenses as it was.
C3_MismatchRejected ==
    [][\A userId \in Users, body \in AddExpenseBodies :
          (/\ AddExpense(userId, body)
           /\ accepted(userId, body)
           /\ unequalBranch(body) /\ body.splitAmong # None
           /\ mismatch(body))
          => /\ status' = 400
             /\ expenses' = expenses
             /\ totalExpenses' = totalExpenses]_vars

\* the step is a successful expense creation by one of the three handlers
creation ==
    /\ inserted
    /\ \/ \E userId \in Users, body \in AddExpenseBodies :
            AddExpense(userId, body)
       \/ \E userId \in Users, body \in AddExpenseEqualBodies :
            AddExpenseEqual(userId, body)
       \/ \E userId \in Users, body \in CreateExpenseBodies :
            CreateExpense(userId, body)

\* C4: in every expense, as it is created, a split is settled exactly when
\* its user is the payer of the expense.
C4_SettledIffPayer ==
    [][creation =>
          \A i \in DOMAIN created.splitAmong :
              created.splitAmong[i].settled
              <=> created.splitAmong[i].user = created.paidBy]_vars

\* C5: every group expense, as it is created, has at least one split, and
\* every split is for the admin or for a member that is active at that time.
C5_SplitsAmongActiveMembers ==
    [][(creation /\ created.group = TheGroup) =>
          /\ created.splitAmong # <<>>
          /\ \A i \in DOMAIN created.splitAmong :
                \/ isAdmin(created.splitAmong[i].user)
                \/ isMember(created.splitAmong[i].user)]_vars

\* the request is turned down and nothing is written
rejected == status' \notin {200, 201} /\ UNCHANGED ledger

\* C6: a caller who is neither the admin nor an active member of the group
\* is turned down by every request that adds an expense to the group or reads
\* its expenses or balances, and the request writes nothing.
C6_OnlyAdminAndActiveMembers ==
    [][\A userId \in Users :
          (~isAdmin(userId) /\ ~isMember(userId)) =>
            /\ \A body \in AddExpenseBodies :
                  AddExpense(userId, body) => rejected
            /\ \A body \in AddExpenseEqualBodies :
                  AddExpenseEqual(userId, body) => rejected
            /\ \A body \in CreateExpenseBodies :
                  (body.groupId = TheGroup /\ CreateExpense(userId, body))
                  => rejected
            /\ GetExpenses(userId) => rejected
            /\ GetUserExpenses(userId) => rejected
            /\ GetBalances(userId) => rejected
            /\ GetGroupBalances(userId) => rejected]_vars

\* the amounts of m's unsettled splits in the expenses of the group
unsettledOf(m) ==
    Sum([e \in DOMAIN groupExpenses |->
        Sum([i \in DOMAIN groupExpenses[e].splitAmong |->
            IF groupExpenses[e].splitAmong[i].user = m
               /\ ~groupExpenses[e].splitAmong[i].settled
            THEN groupExpenses[e].splitAmong[i].amount ELSE 0])])

\* the amounts of the unsettled splits of the expenses m has paid
unsettledPaidBy(m) ==
    Sum([e \in DOMAIN groupExpenses |->
        IF groupExpenses[e].paidBy = m
        THEN Sum([i \in DOMAIN groupExpenses[e].splitAmong |->
                IF ~groupExpenses[e].splitAmong[i].settled
                THEN groupExpenses[e].splitAmong[i].amount ELSE 0])
        ELSE 0])

\* C7: in the answer of each balances route, a member's owed and
\* pendingPayments are the sum of the member's unsettled splits and the
\* member's paid is the sum of the unsettled splits of the expenses the
\* member paid.
C7_OnlyUnsettledCounted ==
    \A m \in balanceUsers :
        /\ balances[m].owed = unsettledOf(m)
        /\ balances[m].pendingPayments = unsettledOf(m)
        /\ balances[m].paid = unsettledPaidBy(m)
        /\ balancesAll[m].owed = unsettledOf(m)
        /\ balancesAll[m].pendingPayments = unsettledOf(m)
        /\ balancesAll[m].paid = unsettledPaidBy(m)

\* the expenses of the group without the settlement records
withoutSettlements ==
    SelectSeq(groupExpenses, LAMBDA e : e.category # "Settlement")

\* C8: each balances route answers what it would answer if the settlement
\* records were not in the ledger.
C8_SettlementRecordsNotCounted ==
    /\ balances = balancesOf(withoutSettlements)
    /\ balancesAll = balancesAllOf(withoutSettlements)

RECURSIVE SumNet(_, _)
SumNet(b, S) ==
    IF S = {} THEN 0
    ELSE LET u == CHOOSE x \in S : TRUE IN b[u].net + SumNet(b, S \ {u})

\* C9: in every reachable ledger the net balances of the members, as each
\* balances route answers them, sum to zero.
C9_NetSumsToZero ==
    /\ SumNet(balances, balanceUsers) = 0
    /\ SumNet(balancesAll, balanceUsers) = 0

\* C10: a split that is settled stays in its expense, settled, with its user
\* and its amount, at every later step.
C10_SettledIsMonotone ==
    [][\A e \in DOMAIN expenses :
          \A i \in DOMAIN expenses[e].splitAmong :
              expenses[e].splitAmong[i].settled =>
                /\ e \in DOMAIN expenses'
                /\ i \in DOMAIN expenses'[e].splitAmong
                /\ expenses'[e].splitAmong[i] = expenses[e].splitAmong[i]]_vars

\* a settle request has just settled a split that was created unsettled,
\* next to a split that was settled at creation
C10_Witness ==
    /\ status = 200
    /\ \E e \in DOMAIN expenses :
          /\ expenses[e].category # "Settlement"
          /\ \E i, j \in DOMAIN expenses[e].splitAmong :
                /\ expenses[e].splitAmong[i].settled
                /\ expenses[e].splitAmong[i].user # expenses[e].paidBy
                /\ expenses[e].splitAmong[j].settled
                /\ expenses[e].splitAmong[j].user = expenses[e].paidBy

scenarioExpense(expenseId) ==
    /\ expenseId \in DOMAIN expenses
    /\ expenses[expenseId].paidBy = "A"
    /\ expenses[expenseId].amount = 9000 * Cent
    /\ [i \in DOMAIN expenses[expenseId].splitAmong |->
            expenses[expenseId].splitAmong[i].user] = <<"A", "B", "C">>
    /\ ~expenses[expenseId].splitAmong[2].settled
    /\ ~expenses[expenseId].splitAmong[3].settled

\* C12: in the group of admin A and active members B and C, an expense of
\* 90.00 that A creates with an equal split among the three has the splits
\* A 30.00 settled, B 30.00 unsettled, C 30.00 unsettled, and the balances
\* are then A +60.00, B -30.00, C -30.00; once B's split of that expense is
\* settled the balances are B 0 and A +30.00.
C12_Scenario ==
    [][/\ \A body \in ScenarioBodies :
            (AddExpense("A", body) /\ inserted) =>
                /\ created.splitAmong =
                      <<[user |-> "A", amount |-> 3000 * Cent,
                         settled |-> TRUE],
                        [user |-> "B", amount |-> 3000 * Cent,
                         settled |-> FALSE],
                        [user |-> "C", amount |-> 3000 * Cent,
                         settled |-> FALSE]>>
                /\ balances'["A"].net = 6000 * Cent
                /\ balances'["B"].net = 0 - 3000 * Cent
                /\ balances'["C"].net = 0 - 3000 * Cent
       /\ \A expenseId \in ExpenseIds :
            (/\ scenarioExpense(expenseId)
             /\ \/ SettleExpense("B", expenseId)
                \/ \E amountPaid \in AmountPaidInputs :
                      UpdatePayment("A", "B", expenseId, amountPaid))
            => /\ balances'["B"].net = 0
               /\ balances'["A"].net = 3000 * Cent]_vars

\* the unsettled splits that link a and b, as <<expense, split>>: a split of
\* a in an expense b has paid, or of b in an expense a has paid
linking(a, b) ==
    {p \in (DOMAIN expenses) \X (1..Cardinality(Users)) :
        /\ p[2] \in DOMAIN expenses[p[1]].splitAmong
        /\ expenses[p[1]].group = TheGroup
        /\ ~expenses[p[1]].splitAmong[p[2]].settled
        /\ \/ /\ expenses[p[1]].paidBy = a
              /\ expenses[p[1]].splitAmong[p[2]].user = b
           \/ /\ expenses[p[1]].paidBy = b
              /\ expenses[p[1]].splitAmong[p[2]].user = a}

\* p comes before q, oldest expense first
before(p, q) == p[1] < q[1] \/ (p[1] = q[1] /\ p[2] < q[2])

RECURSIVE SumSplits(_)
SumSplits(S) ==
    IF S = {} THEN 0
    ELSE LET p == CHOOSE x \in S : TRUE
         IN  expenses[p[1]].splitAmong[p[2]].amount + SumSplits(S \ {p})

\* C13: a settle-balance request for a positive amount between two users
\* that unsettled splits link settles, oldest expense first, the linking
\* splits up to the one with which the amount is covered, and leaves the
\* linking splits after it unsettled.
C13_SettlesOldestFirstUpToAmount ==
    [][\A currentUserId \in Users, userId \in Users, withUserId \in Users,
         amount \in SettlingAmounts :
          (/\ SettleBalance(currentUserId, userId, withUserId, amount)
           /\ currentUserId \in {userId, withUserId}
           /\ userId # withUserId
           /\ linking(userId, withUserId) # {})
          => \A p \in linking(userId, withUserId) :
                expenses'[p[1]].splitAmong[p[2]].settled
                <=> SumSplits({q \in linking(userId, withUserId) :
                                before(q, p)}) < amount]_vars

\* C14: a settle-balance request for a positive amount between two
\* different users that no unsettled split links inserts one expense of
\* category Settlement
\* with two splits, both settled, and leaves the other expenses as they
\* were, whatever unsettled splits third members have in expenses between
\* the two.
C14_DirectSettlementRecorded ==
    [][\A currentUserId \in Users, userId \in Users, withUserId \in Users,
         amount \in Amounts :
          (/\ SettleBalance(currentUserId, userId, withUserId, amount)
           /\ currentUserId \in {userId, withUserId}
           /\ userId # withUserId
           /\ linking(userId, withUserId) = {})
          => /\ inserted
             /\ SubSeq(expenses', 1, Len(expenses)) = expenses
             /\ created.category = "Settlement"
             /\ Len(created.splitAmong) = 2
             /\ \A i \in DOMAIN created.splitAmong :
                    created.splitAmong[i].settled]_vars

\* C15: a settle-balance request between two users by a caller who is
\* neither of them is answered 403, settles no split and inserts no
\* expense.
C15_ThirdPartyCannotSettle ==
    [][\A currentUserId \in Users, userId \in Users, withUserId \in Users,
         amount \in SettleAmountInputs \cup SettlingAmounts :
          (/\ SettleBalance(currentUserId, userId, withUserId, amount)
           /\ currentUserId \notin {userId, withUserId})
          => status' = 403 /\ UNCHANGED ledger]_vars

\* a request has been answered 403 on a ledger in which an unsettled split
\* links two users, neither of whom is the third user
C15_Witness ==
    /\ status = 403
    /\ \E a \in Users, b \in Users :
          a # b /\ linking(a, b) # {} /\ Users \ {a, b} # {}

\* C16: a settle-balance request by one of its two users for an amount
\* that is zero or negative is answered 400, settles no split and inserts
\* no settlement record.
C16_NonPositiveAmountRejected ==
    [][\A currentUserId \in Users, userId \in Users, withUserId \in Users,
         amount \in SettleAmountInputs :
          (/\ SettleBalance(currentUserId, userId, withUserId, amount)
           /\ currentUserId \in {userId, withUserId}
           /\ amount <= 0)
          => status' = 400 /\ UNCHANGED ledger]_vars

\* the step is a run of one of the expense creation handlers
creating ==
    \/ \E userId \in Users, body \in FaultBodies :
            \/ AddExpense(userId, body)
            \/ \E failing \in PersistenceSteps :
                    AddExpenseFails(userId, body, failing)
    \/ \E userId \in Users, body \in CreateExpenseBodies :
            CreateExpense(userId, body) \/ CreateExpenseFails(userId, body)

\* C17: with every creation request finished, whichever of their writes
\* failed, totalExpenses is the sum of the amounts of the expenses of the
\* group that are not settlement records; and a creation request that is
\* answered with a failure has written nothing.
C17_CreationIsAtomic ==
    /\ [](totalExpenses =
            Sum([i \in DOMAIN withoutSettlements |->
                    withoutSettlements[i].amount]))
    /\ [][(creating /\ status' \notin {200, 201}) => UNCHANGED ledger]_vars

\* what is left of u's balance in amounts once every instruction of debts
\* is paid, times d (the denominator of the amounts of debts)
residue(amounts, debts, u, d) ==
    amounts[u] * d
    + Sum([i \in DOMAIN debts |->
            IF debts[i].from = u THEN debts[i].amount.num ELSE 0])
    - Sum([i \in DOMAIN debts |->
            IF debts[i].to = u THEN debts[i].amount.num ELSE 0])

\* C18: whenever updateSimplifiedDebts has stored its instructions, paying
\* them all brings the balance of every user to zero, give or take 0.01
\* for each debt of the user that was too small to be emitted.
C18_SimplifiedDebtsClearBalances ==
    [][(UpdateSimplifiedDebts /\ ~simplifyThrows) =>
          \A u \in Users :
            Abs(residue(groupBalances', simplifiedDebts', u, den'))
                <= Cent * den' * Cardinality(Users)]_vars

admins ==
    {u \in Users : admin = u}
    \cup {members[i].user : i \in {j \in DOMAIN members :
                                        members[j].role = "admin"}}

\* C20: the group has exactly one admin in every reachable state, whoever
\* is invited, added or leaves.
C20_ExactlyOneAdmin == Cardinality(admins) = 1

\* the splits of the expense at expenseId that the step has changed
changedSplits(expenseId) ==
    {i \in DOMAIN expenses[expenseId].splitAmong :
        expenses'[expenseId].splitAmong[i] # expenses[expenseId].splitAmong[i]}

\* the step keeps the group, the other expenses, and in the expense at
\* expenseId everything but the settled flags of the splits of userId
settlingFrame(userId, expenseId) ==
    /\ UNCHANGED <<admin, members, totalExpenses, groupBalances,
                   simplifiedDebts>>
    /\ DOMAIN expenses' = DOMAIN expenses
    /\ \A e \in DOMAIN expenses : e # expenseId => expenses'[e] = expenses[e]
    /\ expenseId \in DOMAIN expenses =>
          /\ expenses' = [expenses EXCEPT ![expenseId].splitAmong =
                              expenses'[expenseId].splitAmong]
          /\ DOMAIN expenses'[expenseId].splitAmong
                = DOMAIN expenses[expenseId].splitAmong
          /\ \A i \in DOMAIN expenses[expenseId].splitAmong :
                /\ expenses'[expenseId].splitAmong[i] =
                      [expenses[expenseId].splitAmong[i] EXCEPT !.settled =
                          expenses'[expenseId].splitAmong[i].settled]
                /\ i \in changedSplits(expenseId) =>
                      expenses[expenseId].splitAmong[i].user = userId

\* the step changes at most one split of the expense at expenseId
oneSplit(expenseId) ==
    expenseId \in DOMAIN expenses =>
        Cardinality(changedSplits(expenseId)) <= 1

idOrder == <<"A", "B", "C">>

\* a is lexicographically smaller than b
smaller(a, b) ==
    \E i, j \in DOMAIN idOrder : idOrder[i] = a /\ idOrder[j] = b /\ i < j

\* the instruction x may come before the instruction y: its amount is
\* larger, or the amounts tie and its debtor id is the smaller, or the
\* debtors are the same and its creditor id is the smaller
precedes(x, y) ==
    \/ x.amount.num > y.amount.num
    \/ /\ x.amount.num = y.amount.num
       /\ \/ smaller(x.from, y.from)
          \/ x.from = y.from /\ smaller(x.to, y.to)

\* C23: the instructions updateSimplifiedDebts stores are the debts above
\* 0.01, largest first, and debts of the same amount are in the order of
\* the debtor ids, then of the creditor ids, wherever the members are in
\* group.members.
C23_LargestFirstTiesByIds ==
    [][(UpdateSimplifiedDebts /\ ~simplifyThrows) =>
          /\ \A i \in DOMAIN simplifiedDebts' :
                simplifiedDebts'[i].amount.num > Cent * den'
          /\ \A i, j \in DOMAIN simplifiedDebts' :
                i < j => precedes(simplifiedDebts'[i], simplifiedDebts'[j])
       ]_vars

\* C24: updateSimplifiedDebts comes to an end on every group, and the
\* instructions it stores are at most as many as the group has members.
C24_AtMostOneInstructionPerMember ==
    /\ [](ENABLED UpdateSimplifiedDebts)
    /\ [][(UpdateSimplifiedDebts /\ ~simplifyThrows) =>
            Len(simplifiedDebts') <= Len(members)]_vars

\* the step is a request that has added an expense to the group through
\* POST / or has settled a split
mutating ==
    /\ expenses' # expenses
    /\ \/ \E userId \in Users, body \in CreateExpenseBodies :
            body.groupId = TheGroup /\ CreateExpense(userId, body)
       \/ \E userId \in Users, expenseId \in ExpenseIds :
            SettleExpense(userId, expenseId)
       \/ \E currentUserId \in Users, userId \in Users,
             expenseId \in ExpenseIds, amountPaid \in AmountPaidInputs :
            UpdatePayment(currentUserId, userId, expenseId, amountPaid)
       \/ \E currentUserId \in Users, userId \in Users, withUserId \in Users,
             amount \in SettleAmountInputs :
            SettleBalance(currentUserId, userId, withUserId, amount)

\* C25: when a request that adds an expense to the group through POST / or
\* settles a split is over, with the recomputation it starts, the
\* simplified debts the group stores are the ones updateSimplifiedDebts
\* computes for the group as it then is.
C25_CacheFollowsLedger ==
    [][mutating =>
          simplifiedDebts' = (IF simplifyThrows THEN simplifiedDebts
                              ELSE greedy(emitted))']_vars

\* what x owes y: the unsettled splits of x in the expenses of the group
\* that y has paid
owes(x, y) ==
    Sum([e \in DOMAIN withoutSettlements |->
        IF withoutSettlements[e].paidBy = y
        THEN owedIn(withoutSettlements[e], x) ELSE 0])

\* the response reports the pair of x and y: the balance of one of them
\* lists the other
reported(x, y) ==
    \E n \in DOMAIN balancesArray :
        \E d \in DOMAIN balancesArray[n].detailedBalances :
            \/ /\ balancesArray[n].id = x
               /\ balancesArray[n].detailedBalances[d].withUser = y
            \/ /\ balancesArray[n].id = y
               /\ balancesArray[n].detailedBalances[d].withUser = x

\* C26: the balances response reports a pair of users exactly when what
\* the one owes the other, netted against what the other owes the one, is
\* 0.01 or more either way.
C26_PairsFromOneCent ==
    \A x \in balanceUsers, y \in balanceUsers :
        x # y => (reported(x, y) <=> Abs(owes(x, y) - owes(y, x)) >= Cent)

\* the calls among calls that commit or abort the transaction
closing(calls) ==
    {i \in DOMAIN calls :
        calls[i] \in {"commitTransaction", "abortTransaction"}}

\* C27: when the handler of POST / is over, whichever way it went, the
\* transaction it started has been committed or aborted, once, and the
\* session has been ended.
C27_TransactionClosed ==
    "startTransaction" \in Range(session) =>
        /\ Cardinality(closing(session)) = 1
        /\ "endSession" \in Range(session)

RECURSIVE SumOver(_, _)
SumOver(f, S) ==
    IF S = {} THEN 0
    ELSE LET u == CHOOSE x \in S : TRUE IN f[u] + SumOver(f, S \ {u})

\* C28: after any sequence of expenses committed through POST /, split
\* equally or as the request says, with the payer among the participants
\* or not, the amounts of Group.balances sum to zero.
C28_GroupBalancesSumToZero ==
    SumOver(groupBalances, DOMAIN groupBalances) = 0

\* the position of user in userIds
indexOf(user) == CHOOSE k \in DOMAIN userIds : userIds[k] = user

\* what the pair of the users at k and j nets to for the user at k, when
\* the pair is below the threshold and in no detailed balance
suppressed(k, j) ==
    IF j < k /\ ~listed(j, k) THEN 0 - netBalance(j, k)
    ELSE IF k < j /\ ~listed(k, j) THEN netBalance(k, j)
    ELSE 0

\* C29: for every user in the balances response, net is the sum of the
\* amounts of the user's detailed balances and of the nets of the user's
\* pairs that are below the threshold; and when x's detailed balances give
\* an amount with y, y's give the opposite amount with x.
C29_NetIsSumOfPairs ==
    \A n \in DOMAIN balancesArray :
        LET m == balancesArray[n]
            k == indexOf(m.id)
        IN  /\ m.net =
                  Sum([d \in DOMAIN m.detailedBalances |->
                          m.detailedBalances[d].amount])
                  + Sum([j \in DOMAIN userIds |-> suppressed(k, j)])
            /\ \A d \in DOMAIN m.detailedBalances :
                  LET other ==
                        detailedBalances(
                            indexOf(m.detailedBalances[d].withUser))
                  IN  \E o \in DOMAIN other :
                        /\ other[o].withUser = m.id
                        /\ other[o].amount =
                              0 - m.detailedBalances[d].amount

\* the splits of the expense at e that the step has settled
settledNow(e) ==
    {i \in DOMAIN expenses[e].splitAmong :
        /\ ~expenses[e].splitAmong[i].settled
        /\ expenses'[e].splitAmong[i].settled}

\* caller may settle the split at i of the expense at e: the split is the
\* caller's, or the caller has paid the expense
authorized(caller, e, i) ==
    \/ expenses[e].splitAmong[i].user = caller
    \/ expenses[e].paidBy = caller

\* C30: whenever a settle request, a payment update or a settle-balance
\* request settles a split, the caller is the user of the split or the
\* payer of its expense, and for a settle request and a settle-balance
\* request the expense is one of the group the request names.
C30_AuthorityToSettle ==
    [][\A e \in DOMAIN expenses : \A i \in settledNow(e) :
          /\ \A userId \in Users, expenseId \in ExpenseIds :
                SettleExpense(userId, expenseId) =>
                    /\ authorized(userId, e, i)
                    /\ expenses[e].group = TheGroup
          /\ \A currentUserId \in Users, userId \in Users,
                expenseId \in ExpenseIds, amountPaid \in AmountPaidInputs :
                UpdatePayment(currentUserId, userId, expenseId, amountPaid)
                    => authorized(currentUserId, e, i)
          /\ \A currentUserId \in Users, userId \in Users,
                withUserId \in Users, amount \in SettlingAmounts :
                SettleBalance(currentUserId, userId, withUserId, amount) =>
                    /\ authorized(currentUserId, e, i)
                    /\ expenses[e].group = TheGroup]_vars

====
